---- MODULE Spec2Model ----
(***************************************************************************)
(* The two AMPtorch tutorial notebooks of medford-group/nnff-training:     *)
(*   BP   src/amptorch_BP/amptorch_BP_tutorial.ipynb  (symmetry functions) *)
(*   GMP  src/unnamed/part_000                        (Gaussian multipole) *)
(* Each notebook is a straight-line script of cells run top to bottom.     *)
(* Calls into ASE, AMPtorch, numpy and matplotlib either return or raise;  *)
(* an uncaught exception ends the run (the notebooks hold no try/except).  *)
(*                                                                         *)
(* Energies are floats in the notebooks; here they are integers in a fixed *)
(* unit, and a mean is kept as the exact fraction num/den, so rounding is  *)
(* not modelled.  The one float special value the script itself can        *)
(* produce, the NaN of a mean over an empty array, is modelled.            *)
(***************************************************************************)
EXTENDS Integers, Sequences, FiniteSets, TLC

\* ------------------------------------------------------------------ bounds

\* Energies range over -MaxE..MaxE.
MaxE == 1
\* Longest pair of sequences fed to the error assessment on its own.
MaxLen == 2
\* Number of points of np.linspace(lo, hi, 100): 100 in both notebooks.
NumPoints == 3
\* Longest trajectory file read by the GMP notebook.
MaxM == 21
\* Largest training duration returned by trainer.train().
MaxDur == 1
\* Largest thread count torch starts with.
MaxThreads == 2

\* ase.io.read(..., index="::10")
Stride == 10

Energies == (0 - MaxE)..MaxE

\* ------------------------------------------------------------------ numpy

RECURSIVE SeqSum(_)
\* ndarray.sum(): left-to-right reduction.
SeqSum(s) == IF s = <<>> THEN 0 ELSE Head(s) + SeqSum(Tail(s))

\* Shapes (la,) and (lb,) broadcast together.
Broadcastable(la, lb) == la = lb \/ la = 1 \/ lb = 1

ArraySubReversed(a, b) ==
    [i \in 1..(IF Len(a) = 1 THEN Len(b) ELSE Len(a)) |->
        (IF Len(a) = 1 THEN a[1] ELSE a[i])
            - (IF Len(b) = 1 THEN b[1] ELSE b[Len(b) + 1 - i])]

\* a - b on two 1-D arrays whose shapes broadcast: a one-element array is
\* stretched to the other's length.
ArraySub(a, b) ==
    [i \in 1..(IF Len(a) = 1 THEN Len(b) ELSE Len(a)) |->
        (IF Len(a) = 1 THEN a[1] ELSE a[i]) - (IF Len(b) = 1 THEN b[1] ELSE b[i])]

\* a ** 2, elementwise.
ArraySquare(a) == [i \in 1..Len(a) |-> a[i] * a[i]]

\* np.abs(a), elementwise.
ArrayAbs(a) == [i \in 1..Len(a) |-> IF a[i] < 0 THEN 0 - a[i] ELSE a[i]]

\* The float nan.
NaN == [nan |-> TRUE, num |-> 0, den |-> 0]

\* np.mean(a): sum / count; nan (with a RuntimeWarning) for an empty array.
NpMeanEmptyZero(a) ==
    [nan |-> FALSE, num |-> SeqSum(a), den |-> IF Len(a) = 0 THEN 1 ELSE Len(a)]

NpMean(a) ==
    IF Len(a) = 0 THEN NaN
    ELSE [nan |-> FALSE, num |-> SeqSum(a), den |-> Len(a)]

\* The warnings np.mean(a) emits.
NpMeanWarnings(a) ==
    IF Len(a) = 0 THEN {"RuntimeWarning: Mean of empty slice"} ELSE {}

\* np.mean((true_energies - pred_energies) ** 2)
EnergyMSENoSquare(t, p) == NpMean(ArraySub(t, p))

EnergyMSE(t, p) == NpMean(ArraySquare(ArraySub(t, p)))

\* np.mean(np.abs(true_energies - pred_energies))
EnergyMAENoAbs(t, p) == NpMean(ArraySub(t, p))

EnergyMAE(t, p) == NpMean(ArrayAbs(ArraySub(t, p)))

\* np.linspace(lo, hi, n), endpoint included: the i-th point (from 0) is
\* lo + i * (hi - lo) / (n - 1), kept as a numerator over LinspaceDen(n).
LinspaceDen(n) == IF n > 1 THEN n - 1 ELSE 1

Linspace(lo, hi, n) ==
    [i \in 1..n |-> lo * LinspaceDen(n) + (i - 1) * (hi - lo)]

\* ------------------------------------------------------------------ state

VARIABLES
    nb,             \* the notebook that runs: "BP" or "GMP"
    pc,             \* the statement about to run
    running,        \* calls into the external libraries that have not returned
    error,          \* the uncaught exception that ended the run, if any
    log,            \* history: the steps started and completed, in order
    numThreads,     \* torch's thread count
    distances,      \* np.linspace(...) bond lengths
    images,         \* BP: the training images; GMP: the scan images
    image,          \* the loop variable: index in images of the object it is bound to, 0 if unbound
    training,       \* GMP: the structures read from the trajectory
    trajLen,        \* GMP: the number of entries of the trajectory file
    fpParams,       \* Gs (BP) or MCSHs (GMP)
    config,         \* the configuration dictionary
    trainer,        \* the AtomsTrainer object
    predictions,    \* the mapping returned by the latest trainer.predict
    true_energies,
    pred_energies,
    mse,
    mae,
    stdout,         \* what the cells print
    warnings,       \* warnings emitted on stderr
    outputs,        \* the value each cell displays (its last expression)
    figure          \* the matplotlib figure

vars == <<nb, pc, running, error, log, numThreads, distances, images, image,
          training, trajLen, fpParams, config, trainer, predictions, true_energies,
          pred_energies, mse, mae, stdout, warnings, outputs, figure>>

Notebooks == {"BP", "GMP"}

ProgramBPPredictFirst ==
    << "synth_init", "synth_loop", "descriptor", "config", "threads",
       "construct", "predict", "train", "true_energies", "pred_energies",
       "print_mse", "print_mae", "set_calc", "calc_energy", "done" >>

\* The statements of each notebook, in cell order.
ProgramBP ==
    << "synth_init", "synth_loop", "descriptor", "config", "threads",
       "construct", "train", "predict", "true_energies", "pred_energies",
       "print_mse", "print_mae", "set_calc", "calc_energy", "done" >>

\* (variant: the trained-model calculator is attached before the errors
\* are assessed)
ProgramGMPCalcFirst ==
    << "read", "inspect", "descriptor", "config", "threads",
       "construct", "train", "predict", "set_calc", "calc_energy",
       "true_energies", "pred_energies", "print_mse", "print_mae",
       "scan_init", "scan_loop", "predict_scan", "plot", "xlabel", "ylabel",
       "done" >>

ProgramGMP ==
    << "read", "inspect", "descriptor", "config", "threads",
       "construct", "train", "predict", "true_energies", "pred_energies",
       "print_mse", "print_mae", "set_calc", "calc_energy",
       "scan_init", "scan_loop", "predict_scan", "plot", "xlabel", "ylabel",
       "done" >>

Program(n) == IF n = "BP" THEN ProgramBP ELSE ProgramGMP

IndexOf(seq, x) == CHOOSE i \in 1..Len(seq) : seq[i] = x

\* The statement after l in notebook n.
NextPc(n, l) == Program(n)[IndexOf(Program(n), l) + 1]

NoError == [type |-> "none", at |-> "none"]

Undefined == [undef |-> TRUE]

NoMean == [nan |-> FALSE, num |-> 0, den |-> 0]

NoTrainer ==
    [state |-> "none", config |-> Undefined, nImages |-> 0,
     net |-> [w |-> 0, b |-> 0], trained |-> 0]

\* ------------------------------------------------------------------ geometry
\* Positions are integer vectors in units of 1/scale Angstrom; sin(0.65) and
\* cos(0.65) are taken as 3/5 and 4/5, and the O-H bond of the water molecule
\* as 1 Angstrom along (0, 4/5, -3/5), so that every length is an integer.

VSub(u, v) == [k \in 1..3 |-> u[k] - v[k]]
VAdd(u, v) == [k \in 1..3 |-> u[k] + v[k]]
Norm2(v) == v[1] * v[1] + v[2] * v[2] + v[3] * v[3]
ISqrt(n) == CHOOSE r \in 0..n : r * r <= n /\ n < (r + 1) * (r + 1)

\* The distance between atoms a0 and a1 (numbered from 0), and its square.
Distance2(pos, a0, a1) == Norm2(VSub(pos[a1 + 1], pos[a0 + 1]))
Distance(pos, a0, a1) == ISqrt(Distance2(pos, a0, a1))

\* Atoms.wrap(pbc=True): every coordinate is mapped into [0, cell).
Wrap(pos, cell) == [a \in 1..Len(pos) |-> [k \in 1..3 |-> pos[a][k] % cell]]

\* BP: the positions given to Atoms("CuCO", ...) for the bond length q/den,
\* in units of 1/(5 den) Angstrom.
CuCOPositions(q) == << <<0 - 3 * q, 4 * q, 0>>, <<0, 0, 0>>, <<3 * q, 4 * q, 0>> >>

\* GMP: the water molecule as molecule("H2O") gives it (O, H, H), in units
\* of 1/scale Angstrom, relative to the oxygen atom.
H2OPositions(scale) ==
    << <<0, 0, 0>>,
       <<0, (4 * scale) \div 5, 0 - (3 * scale) \div 5>>,
       <<0, 0 - (4 * scale) \div 5, 0 - (3 * scale) \div 5>> >>

\* Atoms.set_distance(a0, a1, distance, fix): the two atoms are moved along
\* the line through them; fix = fixNum/fixDen is the point of the bond that
\* stays where it is (0: atom a0, 1: atom a1).
SetDistance(pos, a0, a1, distance, fixNum, fixDen) ==
    LET D == VSub(pos[a1 + 1], pos[a0 + 1])
        L == ISqrt(Norm2(D))
        s0 == [k \in 1..3 |-> ((L - distance) * fixNum * D[k]) \div (L * fixDen)]
        s1 == [k \in 1..3 |->
                  ((L - distance) * (fixDen - fixNum) * D[k]) \div (L * fixDen)]
    IN  [a \in 1..Len(pos) |->
            IF a = a0 + 1 THEN VAdd(pos[a], s0)
            ELSE IF a = a1 + 1 THEN VSub(pos[a], s1)
            ELSE pos[a]]

\* The default of set_distance's fix parameter: 0.5, the centre of the bond.
DefaultFix == [num |-> 1, den |-> 2]

NoForces == [present |-> FALSE, rows |-> <<>>]

\* An ase.Atoms object: where it came from, its atoms (symbols, positions in
\* units of 1/scale Angstrom, cell, periodicity, stored forces), the
\* calculator attached to it and the potential energy that calculator yields.
Structure(src, idx, geom, symbols, positions, scale, pbc, forces, calc, energy) ==
    [src |-> src, idx |-> idx, geom |-> geom, symbols |-> symbols,
     positions |-> positions, scale |-> scale,
     cell |-> <<10, 10, 10>>, pbc |-> pbc, forces |-> forces,
     calc |-> calc, energy |-> energy]

\* The fitted networks train() may end with (the optimiser's result is not
\* determined by the notebook): energy = w * (structural coordinate) + b.
Nets == [w : {0, 1}, b : Energies]

\* The energy the fitted network gives a structure.
NetEnergy(net, s) == net.w * (s.geom % 2) + net.b

\* The trajectory lengths tried: around every multiple of the stride.
TrajLens == {m \in 0..MaxM : m % Stride \in {0, 1, Stride - 1}}

Init ==
    /\ nb \in Notebooks
    /\ trajLen \in (IF nb = "GMP" THEN TrajLens ELSE {0})
    /\ pc = Program(nb)[1]
    /\ running = {}
    /\ error = NoError
    /\ log = <<>>
    /\ numThreads \in 1..MaxThreads
    /\ distances = <<>>
    /\ images = <<>>
    /\ image = 0
    /\ training = <<>>
    /\ fpParams = Undefined
    /\ config = Undefined
    /\ trainer = NoTrainer
    /\ predictions = Undefined
    /\ true_energies = <<>>
    /\ pred_energies = <<>>
    /\ mse = NoMean
    /\ mae = NoMean
    /\ stdout = <<>>
    /\ warnings = {}
    /\ outputs = <<>>
    /\ figure = [points |-> <<>>, xlabel |-> "", ylabel |-> ""]

\* Control is at statement l and no exception has ended the run.
At(l) == pc = l /\ error = NoError

Event(l, ev) == [step |-> l, ev |-> ev]

\* An uncaught exception of the given type ends the run at statement l.
Raise(l, type) ==
    /\ error' = [type |-> type, at |-> l]
    /\ log' = Append(log, Event(l, "raise"))
    /\ pc' = pc

\* Statement l has completed; control moves to the next statement.
Advance(l) ==
    /\ pc' = NextPc(nb, l)
    /\ log' = Append(log, Event(l, "done"))
    /\ error' = error

\* The interpreter enters an external call at statement l and waits in it.
Call(l) ==
    /\ At(l)
    /\ l \notin running
    /\ running' = running \cup {l}
    /\ log' = Append(log, Event(l, "call"))
    /\ pc' = pc
    /\ error' = error

\* The external call at statement l is in progress.
InCall(l) == At(l) /\ l \in running

\* The external call at statement l returns.
Return(l) == running' = running \ {l} /\ Advance(l)

\* The external call at statement l raises.
CallRaises(l) ==
    /\ InCall(l)
    /\ running' = running \ {l}
    /\ Raise(l, "ExternalError")

dataVars == <<distances, images, image, training, trajLen>>
cfgVars == <<fpParams, config>>
resVars == <<predictions, true_energies, pred_energies, mse, mae>>
ioVars == <<stdout, warnings, outputs, figure>>

\* ------------------------------------------------------------------ dataset

\* BP: distances = np.linspace(2, 5, 100); images = []
SynthInit ==
    /\ nb = "BP"
    /\ At("synth_init")
    /\ distances' = Linspace(2, 5, NumPoints)
    /\ images' = <<>>
    /\ Advance("synth_init")
    /\ UNCHANGED <<nb, running, numThreads, image, training, trajLen, cfgVars, trainer,
                   resVars, ioVars>>

\* BP: the positions of the i-th image: the three atoms at the bond length
\* distances[i], wrapped into the 10 x 10 x 10 cell.
SynthPositions(i) ==
    Wrap(CuCOPositions(distances[i]), 10 * 5 * LinspaceDen(NumPoints))

\* BP: one pass of "for dist in distances": build the CuCO image, attach the
\* EMT calculator (e is the energy EMT gives this geometry) and append it.
SynthIterate ==
    /\ nb = "BP"
    /\ At("synth_loop")
    /\ Len(images) < Len(distances)
    /\ \E e \in Energies :
        images' = Append(images,
            Structure("synth", distances[Len(images) + 1], Len(images),
                      <<"Cu", "C", "O">>, SynthPositions(Len(images) + 1),
                      5 * LinspaceDen(NumPoints), <<FALSE, FALSE, FALSE>>,
                      NoForces, "EMT", e))
    /\ image' = Len(images) + 1
    /\ UNCHANGED <<nb, pc, running, error, log, numThreads, distances,
                   training, trajLen, cfgVars, trainer, resVars, ioVars>>

\* (variant: the loop stops one bond length early)
SynthExitEarly ==
    /\ nb = "BP"
    /\ At("synth_loop")
    /\ Len(images) + 1 >= Len(distances)
    /\ Advance("synth_loop")
    /\ UNCHANGED <<nb, running, numThreads, dataVars, cfgVars, trainer,
                   resVars, ioVars>>

\* BP: the loop ends when distances is exhausted.
SynthExit ==
    /\ nb = "BP"
    /\ At("synth_loop")
    /\ Len(images) = Len(distances)
    /\ Advance("synth_loop")
    /\ UNCHANGED <<nb, running, numThreads, dataVars, cfgVars, trainer,
                   resVars, ioVars>>

\* (variant: the stop index is included)
SliceThrough(start, stop, step) ==
    [i \in 1..((stop - start) \div step + 1) |-> start + (i - 1) * step]

RECURSIVE SliceFrom(_, _, _)
\* The indices start, start + step, ... below stop: Python's [start:stop:step].
SliceFrom(start, stop, step) ==
    IF start >= stop THEN <<>>
    ELSE <<start>> \o SliceFrom(start + step, stop, step)

\* GMP: ase.io.read("./data/single_water_2D.traj", index="::10") is entered.
ReadCall ==
    /\ nb = "GMP"
    /\ Call("read")
    /\ UNCHANGED <<nb, numThreads, dataVars, cfgVars, trainer, resVars, ioVars>>

\* GMP: entry k of the trajectory: a water molecule whose second hydrogen
\* atom is displaced (the entries differ in that atom's position), with the
\* forces stored with it (none on the two fixed atoms).
TrajScale == 100
TrajPositions(k) ==
    [H2OPositions(TrajScale) EXCEPT ![3] = VAdd(@, <<k, 0 - k, 0>>)]
\* (variant: forces are stored for the one unconstrained atom only)
TrajForcesFreeAtomOnly(k) ==
    [present |-> TRUE, rows |-> << <<k, 0 - k, 0>> >>]
TrajForces(k) ==
    [present |-> TRUE, rows |-> << <<0, 0, 0>>, <<0, 0, 0>>, <<k, 0 - k, 0>> >>]

\* GMP: the read returns every 10th structure of the trajectory's entries,
\* each with the energy stored with it; the cell displays len(training).
ReadReturn ==
    /\ nb = "GMP"
    /\ InCall("read")
    /\ LET idx == SliceFrom(0, trajLen, Stride) IN
        \E es \in [1..Len(idx) -> Energies] :
            /\ training' = [i \in 1..Len(idx) |->
                   Structure("traj", idx[i], i - 1, <<"O", "H", "H">>,
                             TrajPositions(idx[i]), TrajScale,
                             <<TRUE, TRUE, TRUE>>, TrajForces(idx[i]),
                             "SinglePoint", es[i])]
            /\ outputs' = Append(outputs, [cell |-> "read", value |-> Len(idx)])
    /\ Return("read")
    /\ UNCHANGED <<nb, numThreads, distances, images, image, trajLen, cfgVars,
                   trainer, resVars, stdout, warnings, figure>>

\* GMP: the read raises (no such file, not a trajectory).
ReadRaise ==
    /\ nb = "GMP"
    /\ CallRaises("read")
    /\ UNCHANGED <<nb, numThreads, dataVars, cfgVars, trainer, resVars, ioVars>>

\* GMP: print(training[0].get_cell()) ... print(training[0]); training[0] on
\* an empty list is an IndexError.
Inspect ==
    /\ nb = "GMP"
    /\ At("inspect")
    /\ IF training = <<>>
       THEN /\ Raise("inspect", "IndexError")
            /\ stdout' = stdout
       ELSE /\ stdout' = stdout \o
                << [what |-> "cell", value |-> training[1].cell],
                   [what |-> "pbc", value |-> training[1].pbc],
                   [what |-> "energy", value |-> training[1].energy] >>
            /\ Advance("inspect")
    /\ UNCHANGED <<nb, running, numThreads, dataVars, cfgVars, trainer,
                   resVars, warnings, outputs, figure>>

\* GMP: training[0].get_potential_energy() or get_forces() raises (the
\* trajectory stores no energy or forces for the structure).
InspectRaise ==
    /\ nb = "GMP"
    /\ At("inspect")
    /\ training # <<>>
    /\ Raise("inspect", "ExternalError")
    /\ UNCHANGED <<nb, running, numThreads, dataVars, cfgVars, trainer,
                   resVars, ioVars>>

\* ------------------------------------------------------------------ configuration

\* BP: the symmetry-function parameters.
Gs ==
    [default |->
        [G2 |-> [etas |-> "np.logspace(np.log10(0.05), np.log10(5.0), num=4)",
                 rs_s |-> <<0>>],
         G4 |-> [etas |-> <<"0.005">>, zetas |-> <<"1.0", "4.0">>,
                 gammas |-> <<"1.0", "-1.0">>],
         cutoff |-> 6]]

Sigmas == <<"0.02", "0.2", "0.4", "0.69", "1.1", "1.66", "2.66", "4.4">>

\* GMP: the Gaussian multipole parameters.
MCSHs ==
    [MCSHs |-> [order \in {"0", "1", "2", "3"} |->
                  [groups |-> CASE order = "0" -> <<1>>
                                [] order = "1" -> <<1>>
                                [] order = "2" -> <<1, 2>>
                                [] order = "3" -> <<1, 2, 3>>,
                   sigmas |-> Sigmas]],
     atom_gaussians |-> [H |-> "./valence_gaussians/H_pseudodensity_2.g",
                         O |-> "./valence_gaussians/O_pseudodensity_4.g"],
     cutoff |-> 8]

\* (variant: the elements of the CuCO images of the other notebook)
ElementsCuCO == <<"Cu", "C", "O">>

\* GMP: elements = ["H", "O"]
Elements == <<"H", "O">>

\* Gs = {...} (BP); sigmas, MCSHs, elements = ... (GMP)
Descriptor ==
    /\ At("descriptor")
    /\ fpParams' = IF nb = "BP" THEN Gs ELSE MCSHs
    /\ Advance("descriptor")
    /\ UNCHANGED <<nb, running, numThreads, dataVars, config, trainer,
                   resVars, ioVars>>

ConfigModel ==
    [get_forces |-> TRUE, num_layers |-> 3, num_nodes |-> 5, batchnorm |-> FALSE]

ConfigOptim(n) ==
    [force_coefficient |-> "0.04", lr |-> "1e-2", batch_size |-> 32,
     epochs |-> IF n = "BP" THEN 10 ELSE 100,
     loss |-> "mse", metric |-> "mae", gpus |-> 0]

\* (variant: the GMP notebook keeps the raw_data of the BP notebook)
ConfigDatasetImages(n, fp) ==
    IF n = "BP"
    THEN [raw_data |-> "images", fp_params |-> fp, save_fps |-> TRUE,
          scaling |-> [type |-> "normalize", range |-> <<0, 1>>],
          val_split |-> 0]
    ELSE [raw_data |-> "images", fp_scheme |-> "gmp", fp_params |-> fp,
          elements |-> Elements, save_fps |-> TRUE,
          scaling |-> [type |-> "normalize", range |-> <<0, 1>>],
          val_split |-> 0]

\* raw_data holds a reference to the list of structures: the name of the
\* variable the list is bound to.
ConfigDataset(n, fp) ==
    IF n = "BP"
    THEN [raw_data |-> "images", fp_params |-> fp, save_fps |-> TRUE,
          scaling |-> [type |-> "normalize", range |-> <<0, 1>>],
          val_split |-> 0]
    ELSE [raw_data |-> "training", fp_scheme |-> "gmp", fp_params |-> fp,
          elements |-> Elements, save_fps |-> TRUE,
          scaling |-> [type |-> "normalize", range |-> <<0, 1>>],
          val_split |-> 0]

ConfigCmd ==
    [debug |-> FALSE, run_dir |-> "./", seed |-> 1, identifier |-> "test",
     verbose |-> TRUE, logger |-> FALSE]

\* config = {"model": ..., "optim": ..., "dataset": ..., "cmd": ...}
Config ==
    /\ At("config")
    /\ config' = [model |-> ConfigModel, optim |-> ConfigOptim(nb),
                  dataset |-> ConfigDataset(nb, fpParams), cmd |-> ConfigCmd]
    /\ Advance("config")
    /\ UNCHANGED <<nb, running, numThreads, dataVars, fpParams, trainer,
                   resVars, ioVars>>

\* The list a raw_data reference points to.
Deref(ref) == IF ref = "images" THEN images ELSE training

\* ------------------------------------------------------------------ trainer

\* torch.set_num_threads(1)
Threads ==
    /\ At("threads")
    /\ numThreads' = 1
    /\ Advance("threads")
    /\ UNCHANGED <<nb, running, dataVars, cfgVars, trainer, resVars, ioVars>>

\* trainer = AtomsTrainer(config) is entered.
ConstructCall ==
    /\ Call("construct")
    /\ UNCHANGED <<nb, numThreads, dataVars, cfgVars, trainer, resVars, ioVars>>

\* (variant: the trainer is built from a copy without the "cmd" group)
ConstructReturnNoCmd ==
    /\ InCall("construct")
    /\ trainer' = [NoTrainer EXCEPT !.state = "constructed",
                                    !.config = [g \in {"model", "optim", "dataset"}
                                                  |-> config[g]]]
    /\ Return("construct")
    /\ UNCHANGED <<nb, numThreads, dataVars, cfgVars, resVars, ioVars>>

\* The constructor returns an untrained trainer holding the configuration.
ConstructReturn ==
    /\ InCall("construct")
    /\ trainer' = [NoTrainer EXCEPT !.state = "constructed", !.config = config]
    /\ Return("construct")
    /\ UNCHANGED <<nb, numThreads, dataVars, cfgVars, resVars, ioVars>>

\* The constructor raises.
ConstructRaise ==
    /\ CallRaises("construct")
    /\ UNCHANGED <<nb, numThreads, dataVars, cfgVars, trainer, resVars, ioVars>>

TrainCallNoWait ==
    /\ At("train")
    /\ "train" \notin running
    /\ running' = running \cup {"train"}
    /\ log' = Append(log, Event("train", "call"))
    /\ pc' = NextPc(nb, "train")
    /\ error' = error
    /\ UNCHANGED <<nb, numThreads, dataVars, cfgVars, trainer, resVars, ioVars>>

\* trainer.train() is entered; the interpreter waits for it to return.
TrainCall ==
    /\ Call("train")
    /\ UNCHANGED <<nb, numThreads, dataVars, cfgVars, trainer, resVars, ioVars>>

\* The directory the trainer saves its results to: a directory under
\* "checkpoints" in cmd.run_dir, named by the time of the run and
\* cmd.identifier ("./checkpoints/2021-07-01-12-19-08-test").
CheckpointPath(cfg) ==
    [under |-> cfg.cmd.run_dir, dir |-> "checkpoints",
     stamp |-> "timestamp", suffix |-> cfg.cmd.identifier]

\* The epoch tables the training cells record: per epoch the
\* train_energy_mae, train_forces_mae and train_loss columns in units of
\* 0.0001, and whether the cp column carries a mark.
EpochLogBP ==
    << [energy_mae |-> 6019, forces_mae |-> 3522, loss |-> 4378, cp |-> TRUE],
       [energy_mae |-> 6040, forces_mae |-> 3353, loss |-> 4280, cp |-> FALSE],
       [energy_mae |-> 5027, forces_mae |-> 3252, loss |-> 3093, cp |-> TRUE],
       [energy_mae |-> 4639, forces_mae |-> 3194, loss |-> 2469, cp |-> TRUE],
       [energy_mae |-> 4627, forces_mae |-> 3167, loss |-> 2262, cp |-> TRUE],
       [energy_mae |-> 4268, forces_mae |-> 3018, loss |-> 2792, cp |-> TRUE],
       [energy_mae |-> 3834, forces_mae |-> 2814, loss |-> 1318, cp |-> TRUE],
       [energy_mae |-> 3514, forces_mae |-> 2607, loss |-> 1458, cp |-> TRUE],
       [energy_mae |-> 2804, forces_mae |-> 2340, loss |-> 801, cp |-> TRUE],
       [energy_mae |-> 2119, forces_mae |-> 2126, loss |-> 960, cp |-> TRUE] >>

EpochLogGMP ==
    << [energy_mae |-> 3956, forces_mae |-> 4241, loss |-> 4372, cp |-> TRUE],
       [energy_mae |-> 2170, forces_mae |-> 5340, loss |-> 3745, cp |-> TRUE],
       [energy_mae |-> 2004, forces_mae |-> 5141, loss |-> 3542, cp |-> TRUE],
       [energy_mae |-> 2551, forces_mae |-> 4923, loss |-> 3322, cp |-> FALSE],
       [energy_mae |-> 1872, forces_mae |-> 5031, loss |-> 3035, cp |-> TRUE],
       [energy_mae |-> 1835, forces_mae |-> 4573, loss |-> 2761, cp |-> TRUE],
       [energy_mae |-> 1946, forces_mae |-> 3793, loss |-> 7012, cp |-> FALSE],
       [energy_mae |-> 1665, forces_mae |-> 3547, loss |-> 1945, cp |-> TRUE],
       [energy_mae |-> 1349, forces_mae |-> 3393, loss |-> 1535, cp |-> TRUE],
       [energy_mae |-> 1354, forces_mae |-> 3209, loss |-> 1216, cp |-> FALSE],
       [energy_mae |-> 977, forces_mae |-> 3119, loss |-> 839, cp |-> TRUE],
       [energy_mae |-> 681, forces_mae |-> 3132, loss |-> 566, cp |-> TRUE],
       [energy_mae |-> 529, forces_mae |-> 2863, loss |-> 919, cp |-> TRUE],
       [energy_mae |-> 696, forces_mae |-> 2672, loss |-> 244, cp |-> FALSE],
       [energy_mae |-> 523, forces_mae |-> 2665, loss |-> 160, cp |-> TRUE],
       [energy_mae |-> 578, forces_mae |-> 2600, loss |-> 167, cp |-> FALSE],
       [energy_mae |-> 448, forces_mae |-> 2564, loss |-> 164, cp |-> TRUE],
       [energy_mae |-> 455, forces_mae |-> 2598, loss |-> 176, cp |-> FALSE],
       [energy_mae |-> 440, forces_mae |-> 2546, loss |-> 805, cp |-> TRUE],
       [energy_mae |-> 1232, forces_mae |-> 2718, loss |-> 222, cp |-> FALSE],
       [energy_mae |-> 845, forces_mae |-> 3059, loss |-> 145, cp |-> FALSE],
       [energy_mae |-> 754, forces_mae |-> 2940, loss |-> 502, cp |-> FALSE],
       [energy_mae |-> 1222, forces_mae |-> 2953, loss |-> 202, cp |-> FALSE],
       [energy_mae |-> 900, forces_mae |-> 3000, loss |-> 150, cp |-> FALSE],
       [energy_mae |-> 669, forces_mae |-> 2888, loss |-> 147, cp |-> FALSE],
       [energy_mae |-> 358, forces_mae |-> 2836, loss |-> 87, cp |-> TRUE],
       [energy_mae |-> 339, forces_mae |-> 2807, loss |-> 179, cp |-> TRUE],
       [energy_mae |-> 507, forces_mae |-> 2834, loss |-> 86, cp |-> FALSE],
       [energy_mae |-> 551, forces_mae |-> 2935, loss |-> 95, cp |-> FALSE],
       [energy_mae |-> 393, forces_mae |-> 2977, loss |-> 111, cp |-> FALSE],
       [energy_mae |-> 435, forces_mae |-> 2906, loss |-> 82, cp |-> FALSE],
       [energy_mae |-> 274, forces_mae |-> 2754, loss |-> 85, cp |-> TRUE],
       [energy_mae |-> 460, forces_mae |-> 2660, loss |-> 64, cp |-> FALSE],
       [energy_mae |-> 327, forces_mae |-> 2634, loss |-> 55, cp |-> FALSE],
       [energy_mae |-> 313, forces_mae |-> 2621, loss |-> 58, cp |-> FALSE],
       [energy_mae |-> 286, forces_mae |-> 2541, loss |-> 50, cp |-> FALSE],
       [energy_mae |-> 244, forces_mae |-> 2514, loss |-> 42, cp |-> TRUE],
       [energy_mae |-> 181, forces_mae |-> 2432, loss |-> 40, cp |-> TRUE],
       [energy_mae |-> 144, forces_mae |-> 2380, loss |-> 51, cp |-> TRUE],
       [energy_mae |-> 171, forces_mae |-> 2347, loss |-> 36, cp |-> FALSE],
       [energy_mae |-> 124, forces_mae |-> 2238, loss |-> 39, cp |-> TRUE],
       [energy_mae |-> 112, forces_mae |-> 2150, loss |-> 29, cp |-> TRUE],
       [energy_mae |-> 136, forces_mae |-> 2084, loss |-> 30, cp |-> FALSE],
       [energy_mae |-> 127, forces_mae |-> 2040, loss |-> 29, cp |-> FALSE],
       [energy_mae |-> 129, forces_mae |-> 1993, loss |-> 31, cp |-> FALSE],
       [energy_mae |-> 109, forces_mae |-> 1984, loss |-> 26, cp |-> TRUE],
       [energy_mae |-> 106, forces_mae |-> 1930, loss |-> 25, cp |-> TRUE],
       [energy_mae |-> 107, forces_mae |-> 1914, loss |-> 25, cp |-> FALSE],
       [energy_mae |-> 151, forces_mae |-> 1858, loss |-> 28, cp |-> FALSE],
       [energy_mae |-> 114, forces_mae |-> 1877, loss |-> 27, cp |-> FALSE],
       [energy_mae |-> 97, forces_mae |-> 1808, loss |-> 28, cp |-> TRUE],
       [energy_mae |-> 156, forces_mae |-> 1823, loss |-> 32, cp |-> FALSE],
       [energy_mae |-> 228, forces_mae |-> 1824, loss |-> 25, cp |-> FALSE],
       [energy_mae |-> 199, forces_mae |-> 1806, loss |-> 25, cp |-> FALSE],
       [energy_mae |-> 148, forces_mae |-> 1741, loss |-> 25, cp |-> FALSE],
       [energy_mae |-> 172, forces_mae |-> 1739, loss |-> 27, cp |-> FALSE],
       [energy_mae |-> 109, forces_mae |-> 1701, loss |-> 22, cp |-> FALSE],
       [energy_mae |-> 94, forces_mae |-> 1685, loss |-> 22, cp |-> TRUE],
       [energy_mae |-> 95, forces_mae |-> 1654, loss |-> 20, cp |-> FALSE],
       [energy_mae |-> 92, forces_mae |-> 1647, loss |-> 22, cp |-> TRUE],
       [energy_mae |-> 95, forces_mae |-> 1606, loss |-> 17, cp |-> FALSE],
       [energy_mae |-> 141, forces_mae |-> 1589, loss |-> 17, cp |-> FALSE],
       [energy_mae |-> 142, forces_mae |-> 1572, loss |-> 31, cp |-> FALSE],
       [energy_mae |-> 95, forces_mae |-> 1609, loss |-> 17, cp |-> FALSE],
       [energy_mae |-> 96, forces_mae |-> 1530, loss |-> 21, cp |-> FALSE],
       [energy_mae |-> 171, forces_mae |-> 1510, loss |-> 29, cp |-> FALSE],
       [energy_mae |-> 144, forces_mae |-> 1508, loss |-> 17, cp |-> FALSE],
       [energy_mae |-> 172, forces_mae |-> 1482, loss |-> 15, cp |-> FALSE],
       [energy_mae |-> 145, forces_mae |-> 1455, loss |-> 22, cp |-> FALSE],
       [energy_mae |-> 149, forces_mae |-> 1457, loss |-> 16, cp |-> FALSE],
       [energy_mae |-> 84, forces_mae |-> 1468, loss |-> 13, cp |-> TRUE],
       [energy_mae |-> 86, forces_mae |-> 1441, loss |-> 14, cp |-> FALSE],
       [energy_mae |-> 103, forces_mae |-> 1454, loss |-> 13, cp |-> FALSE],
       [energy_mae |-> 89, forces_mae |-> 1410, loss |-> 13, cp |-> FALSE],
       [energy_mae |-> 115, forces_mae |-> 1420, loss |-> 12, cp |-> FALSE],
       [energy_mae |-> 105, forces_mae |-> 1386, loss |-> 12, cp |-> FALSE],
       [energy_mae |-> 115, forces_mae |-> 1369, loss |-> 11, cp |-> FALSE],
       [energy_mae |-> 138, forces_mae |-> 1370, loss |-> 12, cp |-> FALSE],
       [energy_mae |-> 187, forces_mae |-> 1342, loss |-> 13, cp |-> FALSE],
       [energy_mae |-> 215, forces_mae |-> 1362, loss |-> 19, cp |-> FALSE],
       [energy_mae |-> 322, forces_mae |-> 1347, loss |-> 22, cp |-> FALSE],
       [energy_mae |-> 282, forces_mae |-> 1356, loss |-> 15, cp |-> FALSE],
       [energy_mae |-> 291, forces_mae |-> 1340, loss |-> 16, cp |-> FALSE],
       [energy_mae |-> 297, forces_mae |-> 1384, loss |-> 20, cp |-> FALSE],
       [energy_mae |-> 259, forces_mae |-> 1325, loss |-> 19, cp |-> FALSE],
       [energy_mae |-> 266, forces_mae |-> 1338, loss |-> 15, cp |-> FALSE],
       [energy_mae |-> 292, forces_mae |-> 1307, loss |-> 16, cp |-> FALSE],
       [energy_mae |-> 224, forces_mae |-> 1305, loss |-> 15, cp |-> FALSE],
       [energy_mae |-> 179, forces_mae |-> 1307, loss |-> 13, cp |-> FALSE],
       [energy_mae |-> 179, forces_mae |-> 1299, loss |-> 11, cp |-> FALSE],
       [energy_mae |-> 227, forces_mae |-> 1264, loss |-> 14, cp |-> FALSE],
       [energy_mae |-> 180, forces_mae |-> 1268, loss |-> 12, cp |-> FALSE],
       [energy_mae |-> 120, forces_mae |-> 1256, loss |-> 11, cp |-> FALSE],
       [energy_mae |-> 138, forces_mae |-> 1265, loss |-> 10, cp |-> FALSE],
       [energy_mae |-> 135, forces_mae |-> 1243, loss |-> 10, cp |-> FALSE],
       [energy_mae |-> 109, forces_mae |-> 1232, loss |-> 9, cp |-> FALSE],
       [energy_mae |-> 189, forces_mae |-> 1245, loss |-> 11, cp |-> FALSE],
       [energy_mae |-> 111, forces_mae |-> 1221, loss |-> 10, cp |-> FALSE],
       [energy_mae |-> 179, forces_mae |-> 1218, loss |-> 15, cp |-> FALSE],
       [energy_mae |-> 138, forces_mae |-> 1228, loss |-> 10, cp |-> FALSE] >>

\* (variant: a checkpoint is also marked when only train_loss improves)
RecordedEpochsLossMonitored ==
    LET rows == IF nb = "BP" THEN EpochLogBP ELSE EpochLogGMP
    IN  [i \in 1..Len(rows) |->
            [rows[i] EXCEPT !.cp =
                @ \/ \A j \in 1..(i - 1) : rows[i].loss < rows[j].loss]]

\* The epoch table of the notebook that is run.
RecordedEpochs == IF nb = "BP" THEN EpochLogBP ELSE EpochLogGMP

\* (variant: the last epoch is not run)
TrainOutputOneShort(cfg, n, d) ==
    <<[what |-> "Results saved to", value |-> CheckpointPath(cfg)],
      [what |-> "Loading dataset", value |-> n]>>
    \o [i \in 1..(cfg.optim.epochs - 1) |->
           [what |-> "epoch", value |-> i, row |-> RecordedEpochs[i]]]
    \o <<[what |-> "Training completed in", value |-> d]>>

\* (variant: the path is reported when training has completed)
TrainOutputPathLast(cfg, n, d) ==
    <<[what |-> "Loading dataset", value |-> n]>>
    \o [i \in 1..cfg.optim.epochs |->
           [what |-> "epoch", value |-> i, row |-> RecordedEpochs[i]]]
    \o <<[what |-> "Training completed in", value |-> d],
         [what |-> "Results saved to", value |-> CheckpointPath(cfg)]>>

\* What the training cell prints for a dataset of n images and a training
\* that lasted d: the checkpoint directory, the dataset size, one row per
\* epoch (with the metrics of the recorded run) and the duration.
TrainOutput(cfg, n, d) ==
    <<[what |-> "Results saved to", value |-> CheckpointPath(cfg)],
      [what |-> "Loading dataset", value |-> n]>>
    \o [i \in 1..cfg.optim.epochs |->
           [what |-> "epoch", value |-> i, row |-> RecordedEpochs[i]]]
    \o <<[what |-> "Training completed in", value |-> d]>>

TrainReturnNoValue ==
    /\ InCall("train")
    /\ \E net \in Nets :
        trainer' = [trainer EXCEPT
            !.state = "trained",
            !.net = net,
            !.nImages = Len(Deref(trainer.config.dataset.raw_data)),
            !.trained = @ + 1]
    /\ Return("train")
    /\ UNCHANGED <<nb, numThreads, dataVars, cfgVars, resVars, ioVars>>

\* train() returns: the trainer has loaded the raw_data of its configuration
\* and holds a fitted network; the call returns the training duration d,
\* which the cell displays.
TrainReturn ==
    /\ InCall("train")
    /\ \E net \in Nets, d \in 1..MaxDur :
        /\ trainer' = [trainer EXCEPT
               !.state = "trained",
               !.net = net,
               !.nImages = Len(Deref(trainer.config.dataset.raw_data)),
               !.trained = @ + 1]
        /\ stdout' = stdout \o TrainOutput(trainer.config,
                                  Len(Deref(trainer.config.dataset.raw_data)), d)
        /\ outputs' = Append(outputs, [cell |-> "train", value |-> d])
    /\ Return("train")
    /\ UNCHANGED <<nb, numThreads, dataVars, cfgVars, resVars, warnings, figure>>

TrainRaiseSwallowed ==
    /\ InCall("train")
    /\ running' = running \ {"train"}
    /\ pc' = NextPc(nb, "train")
    /\ log' = Append(log, Event("train", "raise"))
    /\ error' = error
    /\ UNCHANGED <<nb, numThreads, dataVars, cfgVars, trainer, resVars, ioVars>>

\* train() raises.
TrainRaise ==
    /\ CallRaises("train")
    /\ UNCHANGED <<nb, numThreads, dataVars, cfgVars, trainer, resVars, ioVars>>

\* The collection the notebook trains on and assesses errors on.
TrainingSet == IF nb = "BP" THEN images ELSE training

\* The mapping trainer.predict(coll) returns: under "energy", the energy the
\* fitted network gives each structure of coll, in order.
TrainerPredict(tr, coll) ==
    [energy |-> [i \in 1..Len(coll) |-> NetEnergy(tr.net, coll[i])]]

\* predictions = trainer.predict(images) (BP), trainer.predict(training) (GMP)
PredictCall ==
    /\ Call("predict")
    /\ UNCHANGED <<nb, numThreads, dataVars, cfgVars, trainer, resVars, ioVars>>

PredictReturnDropFirst ==
    /\ InCall("predict")
    /\ predictions' = TrainerPredict(trainer, Tail(TrainingSet))
    /\ Return("predict")
    /\ UNCHANGED <<nb, numThreads, dataVars, cfgVars, trainer, true_energies,
                   pred_energies, mse, mae, ioVars>>

\* predict returns the mapping, which is bound to predictions.
PredictReturn ==
    /\ InCall("predict")
    /\ predictions' = TrainerPredict(trainer, TrainingSet)
    /\ Return("predict")
    /\ UNCHANGED <<nb, numThreads, dataVars, cfgVars, trainer, true_energies,
                   pred_energies, mse, mae, ioVars>>

\* predict raises.
PredictRaise ==
    /\ CallRaises("predict")
    /\ UNCHANGED <<nb, numThreads, dataVars, cfgVars, trainer, resVars, ioVars>>

\* ------------------------------------------------------------------ error assessment

\* true_energies = np.array([image.get_potential_energy() for image in ...])
TrueEnergies ==
    /\ At("true_energies")
    /\ true_energies' = [i \in 1..Len(TrainingSet) |-> TrainingSet[i].energy]
    /\ Advance("true_energies")
    /\ UNCHANGED <<nb, running, numThreads, dataVars, cfgVars, trainer,
                   predictions, pred_energies, mse, mae, ioVars>>

\* A get_potential_energy() of the comprehension raises.
TrueEnergiesRaise ==
    /\ At("true_energies")
    /\ TrainingSet # <<>>
    /\ Raise("true_energies", "ExternalError")
    /\ UNCHANGED <<nb, running, numThreads, dataVars, cfgVars, trainer,
                   resVars, ioVars>>

\* pred_energies = np.array(predictions["energy"])
PredEnergies ==
    /\ At("pred_energies")
    /\ pred_energies' = predictions.energy
    /\ Advance("pred_energies")
    /\ UNCHANGED <<nb, running, numThreads, dataVars, cfgVars, trainer,
                   predictions, true_energies, mse, mae, ioVars>>

\* print("Energy MSE:", np.mean((true_energies - pred_energies) ** 2))
\* Shapes that do not broadcast make the subtraction raise ValueError.
PrintMSE ==
    /\ At("print_mse")
    /\ IF Broadcastable(Len(true_energies), Len(pred_energies))
       THEN /\ mse' = EnergyMSE(true_energies, pred_energies)
            /\ stdout' = Append(stdout, [what |-> "Energy MSE:", value |-> mse'])
            /\ warnings' = warnings \cup
                   NpMeanWarnings(ArraySub(true_energies, pred_energies))
            /\ Advance("print_mse")
       ELSE /\ Raise("print_mse", "ValueError")
            /\ UNCHANGED <<mse, stdout, warnings>>
    /\ UNCHANGED <<nb, running, numThreads, dataVars, cfgVars, trainer,
                   predictions, true_energies, pred_energies, mae, outputs,
                   figure>>

\* print("Energy MAE:", np.mean(np.abs(true_energies - pred_energies)))
PrintMAE ==
    /\ At("print_mae")
    /\ IF Broadcastable(Len(true_energies), Len(pred_energies))
       THEN /\ mae' = EnergyMAE(true_energies, pred_energies)
            /\ stdout' = Append(stdout, [what |-> "Energy MAE:", value |-> mae'])
            /\ warnings' = warnings \cup
                   NpMeanWarnings(ArraySub(true_energies, pred_energies))
            /\ Advance("print_mae")
       ELSE /\ Raise("print_mae", "ValueError")
            /\ UNCHANGED <<mae, stdout, warnings>>
    /\ UNCHANGED <<nb, running, numThreads, dataVars, cfgVars, trainer,
                   predictions, true_energies, pred_energies, mse, outputs,
                   figure>>

\* ------------------------------------------------------------------ calculator

\* (variant: attaching the calculator also wraps the atoms into the cell)
SetCalcWraps ==
    /\ At("set_calc")
    /\ IF nb = "BP"
       THEN IF image = 0
            THEN /\ Raise("set_calc", "NameError")
                 /\ UNCHANGED <<images, training>>
            ELSE /\ images' = [images EXCEPT ![image] =
                       [@ EXCEPT !.calc = "AMPtorch",
                                 !.positions = Wrap(@, 10 * images[image].scale),
                                 !.energy = NetEnergy(trainer.net, images[image])]]
                 /\ training' = training
                 /\ Advance("set_calc")
       ELSE /\ training' = [training EXCEPT ![1] =
                  [@ EXCEPT !.calc = "AMPtorch",
                            !.positions = Wrap(@, 10 * training[1].scale),
                            !.energy = NetEnergy(trainer.net, training[1])]]
            /\ images' = images
            /\ Advance("set_calc")
    /\ UNCHANGED <<nb, running, numThreads, distances, image, trajLen, cfgVars,
                   trainer, resVars, ioVars>>

\* BP: image.set_calculator(AMPtorch(trainer)), image being the object the
\* loop variable was last bound to (NameError if the loop never ran);
\* GMP: training[0].set_calculator(AMPtorch(trainer)).
\* From here on the structure's energy is the fitted network's.
SetCalc ==
    /\ At("set_calc")
    /\ IF nb = "BP"
       THEN IF image = 0
            THEN /\ Raise("set_calc", "NameError")
                 /\ UNCHANGED <<images, training>>
            ELSE /\ images' = [images EXCEPT ![image] =
                       [@ EXCEPT !.calc = "AMPtorch",
                                 !.energy = NetEnergy(trainer.net, images[image])]]
                 /\ training' = training
                 /\ Advance("set_calc")
       ELSE /\ training' = [training EXCEPT ![1] =
                  [@ EXCEPT !.calc = "AMPtorch",
                            !.energy = NetEnergy(trainer.net, training[1])]]
            /\ images' = images
            /\ Advance("set_calc")
    /\ UNCHANGED <<nb, running, numThreads, distances, image, trajLen, cfgVars,
                   trainer, resVars, ioVars>>

\* The structure the calculator was attached to.
CalcTarget == IF nb = "BP" THEN images[image] ELSE training[1]

\* image.get_potential_energy() / training[0].get_potential_energy(): the
\* cell displays the energy the attached calculator yields.
CalcEnergy ==
    /\ At("calc_energy")
    /\ outputs' = Append(outputs, [cell |-> "calc_energy", value |-> CalcTarget.energy])
    /\ Advance("calc_energy")
    /\ UNCHANGED <<nb, running, numThreads, dataVars, cfgVars, trainer,
                   resVars, stdout, warnings, figure>>

CalcEnergyRaise ==
    /\ At("calc_energy")
    /\ Raise("calc_energy", "ExternalError")
    /\ UNCHANGED <<nb, running, numThreads, dataVars, cfgVars, trainer,
                   resVars, ioVars>>

\* ------------------------------------------------------------------ 1D scan (GMP)

\* distances = np.linspace(0.8, 1.2, 100), in tenths; images = []
ScanInit ==
    /\ nb = "GMP"
    /\ At("scan_init")
    /\ distances' = Linspace(8, 12, NumPoints)
    /\ images' = <<>>
    /\ Advance("scan_init")
    /\ UNCHANGED <<nb, running, numThreads, image, training, trajLen, cfgVars, trainer,
                   resVars, ioVars>>

\* One pass of "for dist in distances": molecule("H2O"), cell, pbc,
\* set_distance(0, 2, dist), append.  No calculator is attached.
ScanScale == 100 * LinspaceDen(NumPoints)
ScanPositions(i) ==
    SetDistance(H2OPositions(ScanScale), 0, 2, 10 * distances[i],
                DefaultFix.num, DefaultFix.den)

ScanIterate ==
    /\ nb = "GMP"
    /\ At("scan_loop")
    /\ Len(images) < Len(distances)
    /\ images' = Append(images,
           Structure("scan", distances[Len(images) + 1], Len(images) + 1,
                     <<"O", "H", "H">>, ScanPositions(Len(images) + 1),
                     ScanScale, <<TRUE, TRUE, TRUE>>, NoForces, "none", 0))
    /\ image' = Len(images) + 1
    /\ UNCHANGED <<nb, pc, running, error, log, numThreads, distances,
                   training, trajLen, cfgVars, trainer, resVars, ioVars>>

ScanExit ==
    /\ nb = "GMP"
    /\ At("scan_loop")
    /\ Len(images) = Len(distances)
    /\ Advance("scan_loop")
    /\ UNCHANGED <<nb, running, numThreads, dataVars, cfgVars, trainer,
                   resVars, ioVars>>

\* predictions = trainer.predict(images)
PredictScanCall ==
    /\ nb = "GMP"
    /\ Call("predict_scan")
    /\ UNCHANGED <<nb, numThreads, dataVars, cfgVars, trainer, resVars, ioVars>>

\* (variant: the model is fitted again before the scan is predicted)
PredictScanReturnRetrains ==
    /\ nb = "GMP"
    /\ InCall("predict_scan")
    /\ \E net \in Nets :
        /\ trainer' = [trainer EXCEPT !.net = net, !.trained = @ + 1]
        /\ predictions' = TrainerPredict(trainer', images)
    /\ Return("predict_scan")
    /\ UNCHANGED <<nb, numThreads, dataVars, cfgVars, true_energies,
                   pred_energies, mse, mae, ioVars>>

PredictScanReturn ==
    /\ nb = "GMP"
    /\ InCall("predict_scan")
    /\ predictions' = TrainerPredict(trainer, images)
    /\ Return("predict_scan")
    /\ UNCHANGED <<nb, numThreads, dataVars, cfgVars, trainer, true_energies,
                   pred_energies, mse, mae, ioVars>>

PredictScanRaise ==
    /\ nb = "GMP"
    /\ CallRaises("predict_scan")
    /\ UNCHANGED <<nb, numThreads, dataVars, cfgVars, trainer, resVars, ioVars>>

\* (variant: the energies predicted earlier for the training set are drawn)
PlotTrainingPredictions ==
    /\ nb = "GMP"
    /\ At("plot")
    /\ IF Len(distances) = Len(pred_energies)
       THEN /\ figure' = [figure EXCEPT !.points =
                   [i \in 1..Len(distances) |->
                       <<distances[i], pred_energies[i]>>]]
            /\ Advance("plot")
       ELSE /\ Raise("plot", "ValueError")
            /\ figure' = figure
    /\ UNCHANGED <<nb, running, numThreads, dataVars, cfgVars, trainer,
                   resVars, stdout, warnings, outputs>>

\* plt.plot(distances, predictions["energy"], "."): one point per pair;
\* x and y of different lengths make plot raise ValueError.
Plot ==
    /\ nb = "GMP"
    /\ At("plot")
    /\ IF Len(distances) = Len(predictions.energy)
       THEN /\ figure' = [figure EXCEPT !.points =
                   [i \in 1..Len(distances) |->
                       <<distances[i], predictions.energy[i]>>]]
            /\ Advance("plot")
       ELSE /\ Raise("plot", "ValueError")
            /\ figure' = figure
    /\ UNCHANGED <<nb, running, numThreads, dataVars, cfgVars, trainer,
                   resVars, stdout, warnings, outputs>>

\* plt.xlabel("O-H bond length [A]")
XLabel ==
    /\ nb = "GMP"
    /\ At("xlabel")
    /\ figure' = [figure EXCEPT !.xlabel = "O-H bond length [A]"]
    /\ Advance("xlabel")
    /\ UNCHANGED <<nb, running, numThreads, dataVars, cfgVars, trainer,
                   resVars, stdout, warnings, outputs>>

\* plt.ylabel("potential energy [eV]")
YLabel ==
    /\ nb = "GMP"
    /\ At("ylabel")
    /\ figure' = [figure EXCEPT !.ylabel = "potential energy [eV]"]
    /\ Advance("ylabel")
    /\ UNCHANGED <<nb, running, numThreads, dataVars, cfgVars, trainer,
                   resVars, stdout, warnings, outputs>>

\* ------------------------------------------------------------------ specifications

Next ==
    \/ SynthInit \/ SynthIterate \/ SynthExit
    \/ ReadCall \/ ReadReturn \/ ReadRaise
    \/ Inspect \/ InspectRaise
    \/ Descriptor \/ Config \/ Threads
    \/ ConstructCall \/ ConstructReturn \/ ConstructRaise
    \/ TrainCall \/ TrainReturn \/ TrainRaise
    \/ PredictCall \/ PredictReturn \/ PredictRaise
    \/ TrueEnergies \/ TrueEnergiesRaise
    \/ PredEnergies \/ PrintMSE \/ PrintMAE
    \/ SetCalc \/ CalcEnergy \/ CalcEnergyRaise
    \/ ScanInit \/ ScanIterate \/ ScanExit
    \/ PredictScanCall \/ PredictScanReturn \/ PredictScanRaise
    \/ Plot \/ XLabel \/ YLabel

\* A run of either notebook, top to bottom.
Spec == Init /\ [][Next]_vars

\* The sequences of at most MaxLen energies.
EnergySeqs == UNION {[1..n -> Energies] : n \in 0..MaxLen}

\* The error assessment on its own: control is at
\* pred_energies = np.array(predictions["energy"]) with any true energies
\* and any predicted energies.
InitErr ==
    /\ nb \in Notebooks
    /\ trajLen = 0
    /\ pc = "pred_energies"
    /\ running = {}
    /\ error = NoError
    /\ log = <<>>
    /\ numThreads = 1
    /\ distances = <<>>
    /\ images = <<>>
    /\ image = 0
    /\ training = <<>>
    /\ fpParams = Undefined
    /\ config = Undefined
    /\ trainer = NoTrainer
    /\ \E p \in EnergySeqs : predictions = [energy |-> p]
    /\ true_energies \in EnergySeqs
    /\ pred_energies = <<>>
    /\ mse = NoMean
    /\ mae = NoMean
    /\ stdout = <<>>
    /\ warnings = {}
    /\ outputs = <<>>
    /\ figure = [points |-> <<>>, xlabel |-> "", ylabel |-> ""]

NextErr == PredEnergies \/ PrintMSE \/ PrintMAE

SpecErr == InitErr /\ [][NextErr]_vars

\* ------------------------------------------------------------------ properties

\* Statement l has completed.
Done(l) == \E k \in 1..Len(log) : log[k] = Event(l, "done")

RECURSIVE SumOver(_, _)
\* The sum of f over the index set S.
SumOver(f, S) ==
    IF S = {} THEN 0
    ELSE LET x == CHOOSE y \in S : TRUE IN f[x] + SumOver(f, S \ {x})

\* sum over i of (T_i - P_i)^2
SumSquaredError(T, P) ==
    SumOver([i \in 1..Len(T) |-> (T[i] - P[i]) * (T[i] - P[i])], 1..Len(T))

\* sum over i of |T_i - P_i|
SumAbsoluteError(T, P) ==
    SumOver([i \in 1..Len(T) |->
                IF T[i] >= P[i] THEN T[i] - P[i] ELSE P[i] - T[i]], 1..Len(T))

\* The fraction num/den.
Fraction(num, den) == [nan |-> FALSE, num |-> num, den |-> den]

\* The metric m is a number and is >= 0.
NonNegative(m) == ~m.nan /\ m.den > 0 /\ m.num >= 0

\* The metric m is the number 0.
IsZero(m) == ~m.nan /\ m.den > 0 /\ m.num = 0

\* The inputs of the error assessment: the true energies T and the "energy"
\* entry P of the prediction mapping.
InputT == true_energies
InputP == predictions.energy

\* C1: for T and P of equal length N >= 1 the error assessment gives
\* MSE = (sum of (T_i - P_i)^2) / N and MAE = (sum of |T_i - P_i|) / N,
\* P being the "energy" entry of the prediction mapping.
C1_MetricsAreMeans ==
    (Len(InputT) = Len(InputP) /\ Len(InputT) >= 1) =>
        /\ Done("print_mse") =>
              mse = Fraction(SumSquaredError(InputT, InputP), Len(InputT))
        /\ Done("print_mae") =>
              mae = Fraction(SumAbsoluteError(InputT, InputP), Len(InputT))

\* Both metrics computed for two sequences of length 2 whose MSE and MAE differ.
C1_Witness ==
    /\ Done("print_mse") /\ Done("print_mae")
    /\ Len(InputT) = 2 /\ Len(InputP) = 2
    /\ mse.num = 5 /\ mae.num = 3 /\ mse.den = 2 /\ mae.den = 2

\* C2: for a non-empty T, when P equals T elementwise the MSE and the MAE
\* computed are both exactly 0.
C2_ZeroWhenEqual ==
    (InputT # <<>> /\ InputP = InputT) =>
        /\ Done("print_mse") => IsZero(mse)
        /\ Done("print_mae") => IsZero(mae)

\* Both metrics computed for a P equal to a T whose entries differ.
C2_Witness ==
    /\ Done("print_mse") /\ Done("print_mae")
    /\ Len(InputT) = 2 /\ InputT[1] # InputT[2]
    /\ InputP = InputT
    /\ IsZero(mse) /\ IsZero(mae)

C4_EmptyIsUndefined ==
    Len(InputT) = 0 =>
        /\ Done("print_mse") =>
              /\ mse = NaN /\ ~IsZero(mse)
              /\ "RuntimeWarning: Mean of empty slice" \in warnings
              /\ \E k \in 1..Len(stdout) :
                    stdout[k].what = "Energy MSE:" /\ stdout[k].value = NaN
        /\ Done("print_mae") =>
              /\ mae = NaN /\ ~IsZero(mae)
              /\ \E k \in 1..Len(stdout) :
                    stdout[k].what = "Energy MAE:" /\ stdout[k].value = NaN
        /\ \A k \in 1..Len(stdout) :
              stdout[k].what \in {"Energy MSE:", "Energy MAE:"} =>
                  ~IsZero(stdout[k].value)

\* Both metrics computed on empty sequences.
C4_Witness ==
    /\ Len(InputT) = 0 /\ Len(InputP) = 0
    /\ Done("print_mse") /\ Done("print_mae")
    /\ mse.nan /\ mae.nan

DoneBefore(k) == Cardinality({j \in 1..(k - 1) : log[j].ev = "done"})

\* The order C7 claims: loading or synthesis, descriptor, configuration,
\* construction, train, predict, the error metrics, plot.
ClaimedOrder ==
    << IF nb = "BP" THEN "synth_loop" ELSE "read", "descriptor", "config",
       "construct", "train", "predict", "print_mse", "print_mae", "plot" >>

\* C7: the steps run in one fixed order without branching, each starting
\* only after the one before it has completed: every event of the history
\* belongs to the statement that follows the statements completed so far,
\* and a step of the claimed order is entered only after the step before it
\* in that order has completed (predict after train has returned, the
\* metrics after predict has returned).
C7_FixedOrder ==
    /\ \A k \in 1..Len(log) :
          log[k].step = Program(nb)[DoneBefore(k) + 1]
    /\ \A n \in 2..Len(ClaimedOrder) : \A k \in 1..Len(log) :
          log[k].step = ClaimedOrder[n] =>
              \E j \in 1..(k - 1) : log[j] = Event(ClaimedOrder[n - 1], "done")

\* The GMP run has completed every step, the plot included.
C7_Witness ==
    /\ nb = "GMP" /\ pc = "done"
    /\ Done("train") /\ Done("predict") /\ Done("print_mae") /\ Done("plot")

\* The run has ended: at the end of the notebook or with an exception.
Ended == pc = "done" \/ error # NoError

\* The exception that ended the run came from the trainer library.
TrainerRaised ==
    /\ error.type = "ExternalError"
    /\ error.at \in {"construct", "train", "predict", "calc_energy", "predict_scan"}

\* The three results: the training duration displayed by the train cell, a
\* prediction sequence, and the two metrics, computed and printed.
AllResults ==
    /\ \E k \in 1..Len(outputs) :
          outputs[k].cell = "train" /\ outputs[k].value \in 1..MaxDur
    /\ predictions # Undefined
    /\ Len(pred_energies) = Len(TrainingSet)
    /\ NonNegative(mse) /\ NonNegative(mae)
    /\ \E k \in 1..Len(stdout) :
          stdout[k].what = "Energy MSE:" /\ stdout[k].value = mse
    /\ \E k \in 1..Len(stdout) :
          stdout[k].what = "Energy MAE:" /\ stdout[k].value = mae

C9_RaiseEndsRun ==
    /\ \A k \in 1..Len(log) :
          log[k].ev = "raise" =>
              /\ k = Len(log)
              /\ error # NoError /\ error.at = log[k].step
              /\ pc = log[k].step
              /\ running = {}
              /\ Cardinality({j \in 1..Len(log) : log[j].step = log[k].step}) <= 2
    /\ error # NoError =>
          /\ log # <<>> /\ log[Len(log)] = Event(error.at, "raise")
          /\ \A i \in 1..Len(Program(nb)) :
                i > IndexOf(Program(nb), error.at) => ~Done(Program(nb)[i])

\* train raised: no prediction, no metric.
C9_Witness ==
    /\ error = [type |-> "ExternalError", at |-> "train"]
    /\ predictions = Undefined /\ stdout = <<>>

\* C10: at most one step is in progress at any time, a call in progress
\* holds the run at its statement (train blocks until it returns), and the
\* thread count is 1 from before the trainer is constructed.
C10_SingleThreadedBlocking ==
    /\ Cardinality(running) <= 1
    /\ \A l \in running : pc = l
    /\ \A k \in 1..Len(log) :
          log[k].step \in {"construct", "train"} => numThreads = 1

\* train is in progress.
C10_Witness == running = {"train"} /\ pc = "train" /\ numThreads = 1

\* ------------------------------------------------------------------ structures

\* The structures of the two collections.
AllStructures ==
    {images[i] : i \in 1..Len(images)} \cup {training[i] : i \in 1..Len(training)}

\* The per-atom arrays of s have one entry per atom, each of 3 components.
SameAtomCount(s) ==
    /\ Len(s.positions) = Len(s.symbols)
    /\ \A a \in 1..Len(s.positions) : Len(s.positions[a]) = 3
    /\ s.forces.present =>
         /\ Len(s.forces.rows) = Len(s.symbols)
         /\ \A a \in 1..Len(s.forces.rows) : Len(s.forces.rows[a]) = 3

\* C11: every structure of every collection (the CuCO images, the water
\* structures read from the trajectory, the H2O scan images) has as many
\* positions as symbols and, when it has forces, one row of 3 per atom.
C11_SameAtomCount == \A s \in AllStructures : SameAtomCount(s)

\* The trajectory has been read (structures with forces) and the scan images
\* have all been built.
C11_Witness ==
    /\ nb = "GMP"
    /\ Len(training) >= 2
    /\ Len(images) = NumPoints
    /\ \A i \in 1..Len(training) : training[i].forces.present

\* The attributes of a structure other than its calculator.
AtomsOf(s) ==
    [cell |-> s.cell, pbc |-> s.pbc, symbols |-> s.symbols,
     positions |-> s.positions, scale |-> s.scale, forces |-> s.forces]

\* coll becomes coll2 in one step: nothing is removed or replaced, and the
\* structures already in it keep all but the calculator.
OnlyCalculatorChanges(coll, coll2) ==
    /\ Len(coll2) >= Len(coll)
    /\ \A i \in 1..Len(coll) :
         /\ AtomsOf(coll2[i]) = AtomsOf(coll[i])
         /\ coll2[i].idx = coll[i].idx
         /\ coll2[i].src = coll[i].src

\* C12: each structure is built once (no two structures of a collection are
\* built from the same bond length or trajectory entry), and once it is in
\* its collection no step (train, predict, error assessment, plot) changes its
\* cell, pbc flags, symbols or positions: only its calculator changes.
C12_OnlyCalculatorChanges ==
    [][/\ OnlyCalculatorChanges(images, images')
       /\ OnlyCalculatorChanges(training, training')
       /\ \A i, j \in 1..Len(images) : images[i].idx = images[j].idx => i = j
       /\ \A i, j \in 1..Len(training) :
            training[i].idx = training[j].idx => i = j]_vars

\* The trained-model calculator has been attached to a structure that was
\* in its collection through training, prediction and error assessment.
C12_Witness ==
    /\ Done("calc_energy")
    /\ \E s \in AllStructures : s.calc = "AMPtorch"

\* ------------------------------------------------------------------ configuration

\* The configuration record as the notebook writes it.
ConfigAsWritten ==
    [model |-> ConfigModel, optim |-> ConfigOptim(nb),
     dataset |-> ConfigDataset(nb, fpParams), cmd |-> ConfigCmd]

\* C13: the configuration has exactly the four groups model, optim, dataset
\* and cmd; building it never raises (nothing is validated); once built, no
\* step of the run changes it; and the record the trainer was constructed
\* from is the record as written.
C13_ConfigWrittenOnce ==
    /\ [](Done("config") =>
            /\ DOMAIN config = {"model", "optim", "dataset", "cmd"}
            /\ config = ConfigAsWritten)
    /\ [](error # NoError => error.at # "config")
    /\ [](trainer.state # "none" => trainer.config = ConfigAsWritten)
    /\ [][Done("config") => config' = config]_vars

\* The run has reached its end after the trainer was constructed from the
\* record and trained.
C13_Witness ==
    /\ pc = "done"
    /\ trainer.state = "trained"
    /\ trainer.config = config

\* ------------------------------------------------------------------ reading

\* The smallest integer not below a/b.
CeilDiv(a, b) == (a + b - 1) \div b

\* C14: the read with the "::10" slice returns, for a trajectory of trajLen
\* entries, the entries at the indices 0, 10, 20, ... below trajLen, in order:
\* ceil(trajLen/10) structures, the first entry among them whenever there is
\* one, every multiple of 10 below trajLen once and nothing else.
C14_EveryTenthEntry ==
    Done("read") =>
        /\ Len(training) = CeilDiv(trajLen, Stride)
        /\ \A i \in 1..Len(training) :
             /\ training[i].idx = (i - 1) * Stride
             /\ training[i].idx < trajLen
        /\ trajLen > 0 => training[1].idx = 0
        /\ \A k \in 0..(trajLen - 1) :
             k % Stride = 0 <=>
                 \E i \in 1..Len(training) : training[i].idx = k
        /\ \A i, j \in 1..Len(training) :
             training[i].idx = training[j].idx => i = j

\* A trajectory whose length is not a multiple of 10 has been read: the
\* last, incomplete block of 10 contributes its first entry.
C14_Witness ==
    /\ Done("read")
    /\ trajLen % Stride # 0
    /\ Len(training) >= 2

\* ------------------------------------------------------------------ training output

\* The positions in stdout of the lines of one kind.
LinesOf(what) == {k \in 1..Len(stdout) : stdout[k].what = what}

\* C15: the training step prints exactly one checkpoint directory path, before
\* the first epoch is reported; the path lies under cmd.run_dir and ends with
\* cmd.identifier.
C15_CheckpointPathFirst ==
    Done("train") =>
        /\ Cardinality(LinesOf("Results saved to")) = 1
        /\ \A k \in LinesOf("Results saved to") :
             /\ \A j \in LinesOf("epoch") : k < j
             /\ stdout[k].value.under = config.cmd.run_dir
             /\ stdout[k].value.suffix = config.cmd.identifier

\* Training has returned and its epochs were reported.
C15_Witness ==
    /\ Done("train")
    /\ LinesOf("epoch") # {}
    /\ LinesOf("Results saved to") # {}

\* ------------------------------------------------------------------ scan geometry

\* In every scan image the atoms 0 and 2 are as far apart as the bond
\* length the image was built for.
ScanBondIsSet ==
    \A i \in 1..Len(images) :
        Distance(images[i].positions, 0, 2) = 10 * distances[i]

\* The bond between the atoms 0 and 1 has the same length in every image.
OtherBondIsSame ==
    \A i, j \in 1..Len(images) :
        Distance2(images[i].positions, 0, 1) = Distance2(images[j].positions, 0, 1)

\* C16: the scan structures differ in one bond length only: in the image
\* built for the bond length dist the atoms 0 and 2 are dist apart, and the
\* other O-H bond (atoms 0 and 1) has the same length in every image.
C16_OneBondLengthChanges ==
    Done("scan_loop") => ScanBondIsSet /\ OtherBondIsSame

\* ------------------------------------------------------------------ plot

\* C17: the plot draws exactly one point per bond length, the i-th pairing
\* the i-th bond length with the i-th energy predicted for the scan
\* structures (the latest predict call, not the one on the training set); the
\* x axis is labelled as the bond length, the y axis as the potential energy.
C17_PlotPairsScanPredictions ==
    /\ Done("plot") =>
         /\ Len(figure.points) = NumPoints
         /\ Len(figure.points) = Len(distances)
         /\ \A i \in 1..Len(figure.points) :
              figure.points[i] =
                  <<distances[i], TrainerPredict(trainer, images).energy[i]>>
    /\ Done("ylabel") =>
         /\ figure.xlabel = "O-H bond length [A]"
         /\ figure.ylabel = "potential energy [eV]"

\* The plot is complete, and the energies predicted for the training set
\* were not those predicted for the scan.
C17_Witness ==
    /\ Done("ylabel")
    /\ Len(pred_energies) = NumPoints
    /\ pred_energies # TrainerPredict(trainer, images).energy

\* ------------------------------------------------------------------ loops

\* The loop that builds the structures, the step that sets up its bond
\* lengths, and the two bounds given to np.linspace.
LoopStep == IF nb = "BP" THEN "synth_loop" ELSE "scan_loop"
LoopInitStep == IF nb = "BP" THEN "synth_init" ELSE "scan_init"
LoopBounds == IF nb = "BP" THEN [lo |-> 2, hi |-> 5] ELSE [lo |-> 8, hi |-> 12]

\* The bond lengths are NumPoints evenly spaced values from lo to hi, both
\* included, strictly increasing.
EvenlySpaced ==
    /\ Len(distances) = NumPoints
    /\ distances[1] = LoopBounds.lo * LinspaceDen(NumPoints)
    /\ distances[NumPoints] = LoopBounds.hi * LinspaceDen(NumPoints)
    /\ \A i \in 1..(NumPoints - 1) : distances[i] < distances[i + 1]
    /\ \A i \in 1..(NumPoints - 2) :
         distances[i + 1] - distances[i] = distances[i + 2] - distances[i + 1]

\* C18: the loop builds exactly one structure per bond length: the bond
\* lengths are K evenly spaced values between the two bounds, the i-th
\* structure of the collection is built from the i-th of them, every pass
\* appends one structure and is taken only while fewer than K are built (so
\* there are at most K passes), and the loop ends with exactly K structures.
C18_OneStructurePerBondLength ==
    /\ [](Done(LoopInitStep) =>
            /\ EvenlySpaced
            /\ Len(images) <= NumPoints
            /\ \A i \in 1..Len(images) : images[i].idx = distances[i])
    /\ [](Done(LoopStep) => Len(images) = NumPoints)
    /\ [][pc = LoopStep /\ pc' = LoopStep =>
             /\ Len(images) < NumPoints
             /\ images' = Append(images, images'[Len(images')])]_vars

\* The loop has ended with all its structures built.
C18_Witness ==
    /\ Done(LoopStep)
    /\ Len(images) = NumPoints
    /\ NumPoints >= 3

\* ------------------------------------------------------------------ trainer

\* The positions in the history of an event.
EventsOf(l, ev) == {k \in 1..Len(log) : log[k] = Event(l, ev)}

\* The steps that call trainer.predict.
PredictSteps == {"predict", "predict_scan"}

\* C19: in one run the trainer is constructed once and train is invoked
\* once; every predict call comes after train returned and is answered by
\* that trainer; no step after training changes the trainer, so the predict
\* call on the scan sees the model exactly as the one on the training set did.
C19_TrainOncePredictAfter ==
    /\ [](/\ Cardinality(EventsOf("construct", "call")) <= 1
          /\ Cardinality(EventsOf("train", "call")) <= 1
          /\ trainer.trained <= 1)
    /\ [](\A l \in PredictSteps : \A k \in EventsOf(l, "call") :
            /\ \E j \in EventsOf("train", "done") : j < k
            /\ Cardinality(EventsOf("construct", "call")) = 1
            /\ Cardinality(EventsOf("train", "call")) = 1
            /\ trainer.state = "trained"
            /\ trainer.trained = 1)
    /\ [](Done("predict_scan") => predictions = TrainerPredict(trainer, images))
    /\ [][trainer.state = "trained" => trainer' = trainer]_vars

\* Both predict calls have returned.
C19_Witness ==
    /\ EventsOf("predict", "done") # {}
    /\ EventsOf("predict_scan", "done") # {}
    /\ trainer.trained = 1

\* ------------------------------------------------------------------ true energies

\* The calculators the structures of the training set are built or loaded
\* with.
OriginalCalcs == {"EMT", "SinglePoint"}

\* C20: the true energies are all read before the calculator of any structure
\* is replaced by the trained-model calculator: until the replacement every
\* structure of the training set carries its original calculator (EMT or the
\* stored single-point results), the replacement comes after the true
\* energies were read, the values read are those the original calculators
\* give, and they are not changed afterwards.
C20_TrueEnergiesFromOriginalCalcs ==
    /\ [](EventsOf("set_calc", "done") = {} =>
            /\ \A i \in 1..Len(TrainingSet) : TrainingSet[i].calc \in OriginalCalcs
            /\ Done("true_energies") =>
                 /\ Len(true_energies) = Len(TrainingSet)
                 /\ \A i \in 1..Len(TrainingSet) :
                      true_energies[i] = TrainingSet[i].energy)
    /\ [](\A k \in EventsOf("set_calc", "done") :
            \E j \in EventsOf("true_energies", "done") : j < k)
    /\ [][Done("true_energies") => true_energies' = true_energies]_vars

\* The calculator of a structure has been replaced, and the model's energy
\* for that structure is not the true energy read for it.
C20_Witness ==
    /\ Done("set_calc")
    /\ \E i \in 1..Len(TrainingSet) :
         /\ TrainingSet[i].calc = "AMPtorch"
         /\ TrainingSet[i].energy # true_energies[i]

\* ------------------------------------------------------------------ training set

\* The collection the configuration names as dataset.raw_data.
RawData == Deref(config.dataset.raw_data)

\* C21: the error metrics are training-set errors: the collection passed to
\* predict for the error assessment is the collection dataset.raw_data refers
\* to (the same structures in the same order), nothing is held out
\* (val_split = 0), and the number of images the trainer loads and reports is
\* the size of that collection: one per bond length (BP), one per entry read
\* (GMP).
C21_ErrorsOnTrainingSet ==
    /\ Done("config") =>
         /\ config.dataset.val_split = 0
         /\ RawData = TrainingSet
    /\ Done("train") =>
         /\ trainer.nImages = Len(RawData)
         /\ trainer.nImages =
                IF nb = "BP" THEN NumPoints ELSE CeilDiv(trajLen, Stride)
         /\ \A k \in LinesOf("Loading dataset") : stdout[k].value = Len(RawData)
    /\ Done("pred_energies") =>
         /\ Len(pred_energies) = Len(RawData)
         /\ pred_energies = TrainerPredict(trainer, RawData).energy

\* The errors have been assessed on a training set of several structures.
C21_Witness ==
    /\ Done("print_mae")
    /\ Len(RawData) >= 2
    /\ trainer.nImages = Len(pred_energies)

\* ------------------------------------------------------------------ epochs

\* The train call has just returned: the next statement has not started.
TrainJustReturned ==
    /\ Done("train")
    /\ At(NextPc(nb, "train"))
    /\ running = {}

EpochRows ==
    LET E == LinesOf("epoch")
        first == CHOOSE k \in E : \A j \in E : k <= j
    IN  IF E = {} THEN <<>>
        ELSE [i \in 1..Cardinality(E) |-> stdout[first + i - 1].row]

\* The value of a column in row i is strictly below its value in every
\* earlier row.
Improves(rows, i, column) ==
    \A j \in 1..(i - 1) : rows[i][column] < rows[j][column]

\* The marks of the epoch table printed so far are those of the epochs with
\* the best train_energy_mae so far.
CheckpointsOnBestEnergyMAE ==
    LET rows == EpochRows
    IN  /\ Len(rows) >= 1
        /\ rows[1].cp
        /\ \A i \in 1..Len(rows) :
             rows[i].cp <=> Improves(rows, i, "energy_mae")
        /\ \A i \in 1..Len(rows) :
             /\ Improves(rows, i, "loss") \/ Improves(rows, i, "forces_mae")
             /\ ~Improves(rows, i, "energy_mae")
             => ~rows[i].cp

\* C23: in the epoch table a training run has printed when it returns, a
\* checkpoint is marked for an epoch exactly when its train_energy_mae is
\* strictly lower than that of every earlier epoch of the run; the first
\* epoch is always marked, and an improvement of train_loss or
\* train_forces_mae alone never gives a mark.
C23_CheckpointOnBestEnergyMAE ==
    TrainJustReturned => CheckpointsOnBestEnergyMAE

\* The table has, after its first row, a row that is marked and a row in
\* which train_loss and train_forces_mae improve but train_energy_mae does
\* not.
C23_Witness ==
    /\ TrainJustReturned
    /\ LET rows == EpochRows
       IN  /\ \E i \in 2..Len(rows) : rows[i].cp
           /\ \E i \in 2..Len(rows) :
                /\ Improves(rows, i, "loss")
                /\ Improves(rows, i, "forces_mae")
                /\ ~Improves(rows, i, "energy_mae")
                /\ ~rows[i].cp

\* ------------------------------------------------------------------ descriptor

\* The elements the GMP configuration lists, and those it gives a
\* pseudo-potential file for.
ListedElements ==
    {config.dataset.elements[i] : i \in 1..Len(config.dataset.elements)}
GaussianElements == DOMAIN config.dataset.fp_params.atom_gaussians

\* C24: in the GMP notebook the elements listed in dataset.elements are
\* exactly those with a pseudo-potential file in atom_gaussians, and every
\* atomic symbol of every structure given to train or predict (the water
\* structures read, the H2O scan structures) is one of them.
C24_ElementsCoverStructures ==
    nb = "GMP" /\ Done("config") =>
        /\ ListedElements = GaussianElements
        /\ \A s \in AllStructures :
             \A a \in 1..Len(s.symbols) : s.symbols[a] \in ListedElements

\* The scan structures have been predicted, after the training on the
\* structures read.
C24_Witness ==
    /\ nb = "GMP"
    /\ Done("predict_scan")
    /\ training # <<>>
    /\ images # <<>>

\* ------------------------------------------------------------------ zero metrics

====
